---- MODULE Spec2Model ----
(***************************************************************************)
(* Trip sharing and access control of TravelMind (backend/routes/trips.py, *)
(* backend/routes/participants.py, backend/routes/places.py,               *)
(* backend/utils/access_control.py, backend/models/participant.py).        *)
(*                                                                         *)
(* Spec     : every request handler runs as one atomic step.               *)
(* SpecConc : the sharing handlers of routes/trips.py are split at their   *)
(*            awaits: the reads and checks (.._begin) and the commit       *)
(*            (.._commit), each request in its own database session.       *)
(***************************************************************************)
EXTENDS Integers, FiniteSets, Sequences, Bags, TLC

\* ------------------------------------------------------------------ bounds
MaxUsers == 3
MaxTrips == 1
MaxParticipants == 1
MaxInflight == 2
MaxAuditLogs == 1
MaxResetTokens == 2
MaxTicks == 6

\* rows in SpecConc: room for the row that a concurrent insert adds
MaxParticipantsConc == MaxParticipants + 1

\* --------------------------------------------------------------- constants
\* SQL NULL / Python None for an id column
NULL == 0

UserIds == 1..MaxUsers
TripIds == 1..MaxTrips
ParticipantIds == 1..MaxParticipants

\* models/participant.py
PermissionLevel == {"owner", "editor", "viewer"}
InvitationStatus == {"pending", "accepted", "declined"}

VARIABLES
    users,                \* users table: id -> [is_superuser, is_active]
    trips,                \* trips table: set of [id, owner_id]
    participants,         \* participants table: set of rows
    inflight,             \* bag of the requests that have read and not yet committed
    resp,                 \* the response being returned to the client
    audit_logs,           \* audit_logs table: sequence of entries, oldest first
    recorded,             \* the calls of AuditService.log_event made by the request being answered
    vault,                \* the last calls of EncryptionService.encrypt / decrypt
    clock,                \* the wall clock datetime.now() reads, in ticks
    reset_tokens          \* the password-reset tokens sent out, each with the tick it was made at

vars == <<users, trips, participants, inflight, resp, audit_logs, recorded, vault, clock, reset_tokens>>

\* ------------------------------------------------------------------ tables
\* a request between its reads and its commit, with what its session holds:
\* target is the id of the row it loaded (accept, decline, remove) or the
\* invited user (share)
Request(op, user, trip, target, perm) ==
    [op |-> op, user |-> user, trip |-> trip, target |-> target, perm |-> perm]

\* What a finished request returns: the endpoint, the status code, the
\* authenticated user and the path parameters (trip, target = participant_id)
\* and, for a created invitation, the invited user and the permission of the
\* returned row.
\* no request is being answered
NoResponse ==
    [op |-> "none", code |-> 0, user |-> NULL, trip |-> NULL,
     target |-> NULL, perm |-> "none"]

Response(op, code, user, trip, target, perm) ==
    [op |-> op, code |-> code, user |-> user, trip |-> trip,
     target |-> target, perm |-> perm]

TripById(trip_id) == {t \in trips : t.id = trip_id}

\* Participant(...) as share_trip builds it
NewParticipant(id, trip_id, user_id, permission) ==
    [id |-> id, trip_id |-> trip_id, user_id |-> user_id,
     permission |-> permission, invitation_status |-> "pending",
     accepted_at |-> NULL]

\* the primary key the database gives the next row: id is INTEGER PRIMARY KEY
\* on the default SQLite database, which numbers a new row max(id) + 1
NextParticipantId(parts) ==
    IF parts = {} THEN 1
    ELSE (CHOOSE p \in parts : \A q \in parts : q.id <= p.id).id + 1

\* select(Participant).where(trip_id == .., user_id == ..)
RowsOf(parts, trip_id, user_id) ==
    {p \in parts : p.trip_id = trip_id /\ p.user_id = user_id}

\* the query without its invitation_status condition
AcceptedRowsOf_anystatus(parts, trip_id, user_id) ==
    RowsOf(parts, trip_id, user_id)

\* ... and invitation_status == ACCEPTED
AcceptedRowsOf(parts, trip_id, user_id) ==
    {p \in RowsOf(parts, trip_id, user_id) : p.invitation_status = "accepted"}

\* Participant.can_edit
can_edit(p) == p.permission \in {"owner", "editor"}

\* ------------------------------------------------------- permission checks
\* check_trip_access without the is_superuser branch
check_trip_access_noadmin(trip, user, parts, require_edit) ==
    IF trip.owner_id = user THEN "owner"
    ELSE LET found == AcceptedRowsOf(parts, trip.id, user) IN
         IF Cardinality(found) > 1 THEN "error"
         ELSE IF found = {} THEN "none"
         ELSE LET participant == CHOOSE p \in found : TRUE IN
              IF require_edit /\ participant.permission = "viewer" THEN "none"
              ELSE participant.permission

\* routes/trips.py check_trip_access; "none" is None, "error" is the
\* MultipleResultsFound that scalar_one_or_none raises on two matching rows
check_trip_access(trip, user, parts, require_edit) ==
    IF users[user].is_superuser THEN "owner"
    ELSE IF trip.owner_id = user THEN "owner"
    ELSE LET found == AcceptedRowsOf(parts, trip.id, user) IN
         IF Cardinality(found) > 1 THEN "error"
         ELSE IF found = {} THEN "none"
         ELSE LET participant == CHOOSE p \in found : TRUE IN
              IF require_edit /\ participant.permission = "viewer" THEN "none"
              ELSE participant.permission

\* routes/trips.py verify_trip_access: the level, or "denied" for the 403
verify_trip_access(trip, user, parts, require_edit) ==
    LET permission == check_trip_access(trip, user, parts, require_edit) IN
    IF permission = "none" THEN "denied" ELSE permission

\* routes/trips.py verify_trip_ownership: TRUE when it returns, FALSE for the 403
verify_trip_ownership(trip, user) ==
    IF users[user].is_superuser THEN TRUE
    ELSE trip.owner_id = user

\* utils/access_control.py verify_trip_access: "ok" when the trip is returned
access_control_verify_trip_access(trip_id, current_user, parts, require_edit) ==
    IF TripById(trip_id) = {} THEN "not_found"
    ELSE LET trip == CHOOSE t \in TripById(trip_id) : TRUE IN
         IF trip.owner_id = current_user THEN "ok"
         ELSE LET found == AcceptedRowsOf(parts, trip_id, current_user) IN
              IF Cardinality(found) > 1 THEN "error"
              ELSE IF found = {} THEN "denied"
              ELSE LET participant == CHOOSE p \in found : TRUE IN
                   IF require_edit /\ ~can_edit(participant) THEN "denied"
                   ELSE "ok"

\* routes/places.py verify_trip_access
places_verify_trip_access(trip_id, user) ==
    IF TripById(trip_id) = {} THEN "not_found"
    ELSE LET trip == CHOOSE t \in TripById(trip_id) : TRUE IN
         IF trip.owner_id # user THEN "denied" ELSE "ok"

\* routes/participants.py verify_trip_access
participants_verify_trip_access(trip_id, current_user) ==
    IF TripById(trip_id) = {} THEN "not_found"
    ELSE LET trip == CHOOSE t \in TripById(trip_id) : TRUE IN
         IF trip.owner_id # current_user THEN "denied" ELSE "ok"

\* ------------------------------------------------- utils/encryption.py
\* the strings the vault is called with
Plaintexts == {"", "key-1", "key-2"}

\* SECRET_KEY of the environment the service was constructed in
Secrets == {"secret-1", "secret-2"}

\* salt arguments: none, three that decode, one that does not
SaltStrings == {"", "QQ==", "QR==", "Qg==", "Q"}

\* base64.urlsafe_b64decode(salt.encode()): the bytes, or "error" where it
\* raises binascii.Error. The decoder drops the unused low bits of the last
\* character, so "QQ==" and "QR==" both decode to b"A".
urlsafe_b64decode(salt) ==
    CASE salt = ""     -> ""
      [] salt = "QQ==" -> "A"
      [] salt = "QR==" -> "A"
      [] salt = "Qg==" -> "B"
      [] OTHER         -> "error"

\* EncryptionService._derive_key: PBKDF2-HMAC-SHA256 of the secret under the
\* salt; distinct (secret, salt) pairs give distinct keys
derive_key(secret, salt_bytes) == <<secret, salt_bytes>>

\* a ciphertext string: "" (empty), a Fernet token made under `key` for
\* `data`, or a token whose bytes were altered (its HMAC no longer verifies)
EmptyCiphertext == [kind |-> "empty", key |-> <<"", "">>, data |-> ""]
FernetToken(key, data) == [kind |-> "token", key |-> key, data |-> data]
Corrupted(ciphertext) == [ciphertext EXCEPT !.kind = "corrupted"]

\* what a call returns: a value, or the exception it raises
Returned(value) == [raised |-> "none", value |-> value]
Raised(exception) == [raised |-> exception, value |-> EmptyCiphertext]

\* encrypt without its "if not plaintext" branch
encrypt_noempty(plaintext, salt, secret) ==
    IF salt = "" THEN Raised("ValueError")
    ELSE LET salt_bytes == urlsafe_b64decode(salt) IN
         IF salt_bytes = "error" THEN Raised("binascii.Error")
         ELSE Returned(FernetToken(derive_key(secret, salt_bytes), plaintext))

\* EncryptionService.encrypt
encrypt(plaintext, salt, secret) ==
    IF plaintext = "" THEN Returned(EmptyCiphertext)
    ELSE IF salt = "" THEN Raised("ValueError")
    ELSE LET salt_bytes == urlsafe_b64decode(salt) IN
         IF salt_bytes = "error" THEN Raised("binascii.Error")
         ELSE Returned(FernetToken(derive_key(secret, salt_bytes), plaintext))

\* Fernet(key).decrypt(token): the data, or "InvalidToken"
fernet_decrypt(key, ciphertext) ==
    IF ciphertext.kind = "token" /\ ciphertext.key = key
    THEN ciphertext.data
    ELSE "InvalidToken"

\* EncryptionService.decrypt: the string it returns, or the exception it
\* raises (it has no raise of its own and catches Exception)
decrypt(ciphertext, salt, secret) ==
    IF ciphertext.kind = "empty" THEN [raised |-> "none", value |-> ""]
    ELSE IF salt = "" THEN [raised |-> "none", value |-> ""]
    ELSE LET salt_bytes == urlsafe_b64decode(salt) IN
         IF salt_bytes = "error" THEN [raised |-> "none", value |-> ""]
         ELSE LET decrypted == fernet_decrypt(derive_key(secret, salt_bytes), ciphertext) IN
              IF decrypted = "InvalidToken" THEN [raised |-> "none", value |-> ""]
              ELSE [raised |-> "none", value |-> decrypted]

\* no call of the vault has been made
VaultIdle ==
    [op |-> "none", plaintext |-> "", salt |-> "", secret |-> "",
     raised |-> "none", ciphertext |-> EmptyCiphertext,
     salt2 |-> "", secret2 |-> "", raised2 |-> "none", out |-> ""]

\* ------------------------------------------- services/audit_service.py
\* what can go wrong in one call of log_event: nothing; AuditLog(...) or
\* _extract_request_info raises ("build"); db.add raises ("add"); db.commit
\* raises ("commit"); db.refresh raises after the commit ("refresh"); the
\* store is unavailable, so the commit and then the rollback in the except
\* branch raise ("store_down")
AuditFaults == {"none", "build", "add", "commit", "refresh", "store_down"}

\* the audit table is left out of the specification: the call succeeds and
\* its entry is not kept
Untracked == "untracked"

\* models/audit_log.py AuditLog(...): the columns the handlers fill in
AuditLog(event_type, user_id, username, resource_id, status) ==
    [id |-> NULL, event_type |-> event_type, user_id |-> user_id,
     username |-> username, resource_id |-> resource_id, status |-> status]

\* what log_event gives its caller: the entry, None, or the exception that
\* escapes it (the except branch awaits db.rollback() unguarded)
log_event_returns(fault) ==
    IF fault \in {"none", Untracked} THEN "entry"
    ELSE IF fault = "store_down" THEN "raise"
    ELSE "None"

\* the audit_logs table after the call: the INSERT is committed unless the
\* call fails before or in db.commit()
log_event_writes(logs, log_entry, fault) ==
    IF fault \in {"none", "refresh"}
    THEN Append(logs, [log_entry EXCEPT !.id = Len(logs) + 1])
    ELSE logs

\* AuditService.log_event called on the audit table `logs`, once, by the
\* request being handled
log_event_on(logs, log_entry, fault) ==
    IF fault = Untracked
    THEN /\ audit_logs' = logs
         /\ UNCHANGED recorded
    ELSE /\ log_event_writes(logs, log_entry, fault) # logs
                => Len(logs) < MaxAuditLogs
         /\ audit_logs' = log_event_writes(logs, log_entry, fault)
         /\ recorded' = Append(recorded,
                               [event_type |-> log_entry.event_type,
                                status |-> log_entry.status,
                                fault |-> fault,
                                returned |-> log_event_returns(fault)])

log_event(log_entry, fault) == log_event_on(audit_logs, log_entry, fault)

\* the session after the call: db.rollback() in the except branch expires
\* every object the session holds
session_expired(fault) == fault \notin {"none", Untracked}

\* the status a handler answers with after its audit call: 500 when
\* log_event raised, and 500 when the handler goes on to read an ORM object
\* that the rollback expired (the attribute load runs outside the session's
\* greenlet and raises MissingGreenlet), else the handler's own status
status_after_audit(code, fault, reads_orm_object) ==
    IF log_event_returns(fault) = "raise" THEN 500
    ELSE IF reads_orm_object /\ session_expired(fault) THEN 500
    ELSE code

\* models/user.py User.hash_password: a bcrypt hash that verifies against
\* the password it was made from and against no other
hash_password(password) == "$2b$" \o password

\* -------------------------------------------------------------------- Init
Init ==
    /\ users = [u \in UserIds |-> [is_superuser |-> (u = 1), is_active |-> TRUE,
                                   encrypted_api_key |-> EmptyCiphertext,
                                   encryption_salt |-> "",
                                   hashed_password |-> hash_password("initial"),
                                   password_changed_at |-> NULL]]
    /\ trips = {}
    /\ participants = {}
    /\ inflight = EmptyBag
    /\ resp = NoResponse
    /\ audit_logs = <<>>
    /\ recorded = <<>>
    /\ vault = VaultIdle
    /\ clock = 1
    /\ reset_tokens = {}

\* --------------------------------------------------------------- create_trip
\* the id the database gives a new trip: one more than the highest in use
\* (SQLite rowid of an INTEGER PRIMARY KEY)
NextTripId(trip_rows) ==
    IF trip_rows = {} THEN 1
    ELSE (CHOOSE t \in trip_rows : \A o \in trip_rows : o.id <= t.id).id + 1

\* routes/trips.py ENABLE_DEMO_MODE: the default of the environment variable
ENABLE_DEMO_MODE == FALSE

\* routes/auth.py get_optional_user: the user a token names, whether active
\* or not; None without a token or when the token's user is gone
get_optional_user(caller) ==
    IF caller \in DOMAIN users THEN caller ELSE NULL

\* fault: what the audit write of this request meets
create_trip(user, fault) ==
    /\ resp = NoResponse
    /\ IF get_optional_user(user) = NULL /\ ~ENABLE_DEMO_MODE
       THEN /\ resp' = Response("create_trip", 401, user, NULL, NULL, "none")
            /\ UNCHANGED <<trips, audit_logs, recorded>>
       ELSE /\ NextTripId(trips) \in TripIds
            /\ LET id == NextTripId(trips) IN
               /\ trips' = trips \cup {[id |-> id, owner_id |-> user]}
               /\ log_event(AuditLog("trip.create", user, user, id, "success"), fault)
               \* return new_trip
               /\ resp' = Response("create_trip", status_after_audit(201, fault, TRUE),
                                   user, id, NULL, "none")
    /\ UNCHANGED <<users, participants, inflight, vault, clock, reset_tokens>>

\* ---------------------------------------------------------------- share_trip
\* the checks without the "cannot invite yourself" branch
share_trip_check_noself(trip_id, current_user, invitee, permission, parts) ==
    IF TripById(trip_id) = {} THEN 404
    ELSE LET trip == CHOOSE t \in TripById(trip_id) : TRUE IN
         IF ~verify_trip_ownership(trip, current_user) THEN 403
         ELSE IF permission \notin {"editor", "viewer"} THEN 400
         ELSE IF invitee = NULL THEN 404
         ELSE LET existing == RowsOf(parts, trip_id, invitee) IN
              IF Cardinality(existing) > 1 THEN 500
              ELSE IF existing # {} THEN 400
              ELSE 201

\* the checks of share_trip up to db.add: the status code they end in, 201
\* when the invitation is about to be added. invitee is the id of the user
\* the username_or_email lookup finds, NULL when it finds none.
share_trip_check(trip_id, current_user, invitee, permission, parts) ==
    IF TripById(trip_id) = {} THEN 404
    ELSE LET trip == CHOOSE t \in TripById(trip_id) : TRUE IN
         IF ~verify_trip_ownership(trip, current_user) THEN 403
         ELSE IF permission \notin {"editor", "viewer"} THEN 400
         ELSE IF invitee = NULL THEN 404
         ELSE IF invitee = current_user THEN 400
         ELSE LET existing == RowsOf(parts, trip_id, invitee) IN
              IF Cardinality(existing) > 1 THEN 500
              ELSE IF existing # {} THEN 400
              ELSE 201

\* db.add(participant); db.commit()
share_trip_write(parts, id, trip_id, invitee, permission) ==
    parts \cup {NewParticipant(id, trip_id, invitee, permission)}

share_trip(current_user, trip_id, invitee, permission, fault) ==
    LET code == share_trip_check(trip_id, current_user, invitee, permission, participants) IN
    /\ resp = NoResponse
    /\ code = 201 => NextParticipantId(participants) <= MaxParticipants
    /\ IF code = 201
       THEN /\ participants' = share_trip_write(participants,
                                                NextParticipantId(participants),
                                                trip_id, invitee, permission)
            /\ log_event(AuditLog("trip.share", current_user, current_user,
                                  trip_id, "success"), fault)
       ELSE UNCHANGED <<participants, audit_logs, recorded>>
    \* 201 returns the new row (return participant); an error returns only its
    \* status and detail
    /\ resp' = IF code = 201
               THEN Response("share_trip", status_after_audit(code, fault, TRUE),
                             current_user, trip_id, invitee, permission)
               ELSE Response("share_trip", code, current_user, trip_id, NULL, "none")
    /\ UNCHANGED <<users, trips, inflight, vault, clock, reset_tokens>>

\* ---------------------------------------------------- accept_trip_invitation
\* the checks without the "already declined" branch
accept_trip_invitation_check_nodeclined(trip_id, current_user, parts) ==
    LET found == RowsOf(parts, trip_id, current_user) IN
    IF Cardinality(found) > 1 THEN 500
    ELSE IF found = {} THEN 404
    ELSE LET participant == CHOOSE p \in found : TRUE IN
         IF participant.invitation_status = "accepted" THEN 400
         ELSE 200

accept_trip_invitation_check(trip_id, current_user, parts) ==
    LET found == RowsOf(parts, trip_id, current_user) IN
    IF Cardinality(found) > 1 THEN 500
    ELSE IF found = {} THEN 404
    ELSE LET participant == CHOOSE p \in found : TRUE IN
         IF participant.invitation_status = "accepted" THEN 400
         ELSE IF participant.invitation_status = "declined" THEN 400
         ELSE 200

\* the write that stamps accepted_at and leaves invitation_status alone
accept_trip_invitation_write_nostatus(parts, id) ==
    {IF p.id = id THEN [p EXCEPT !.accepted_at = 1] ELSE p : p \in parts}

\* participant.invitation_status = ACCEPTED; participant.accepted_at = now()
\* (accepted_at: 1 stands for a timestamp, NULL for unset)
accept_trip_invitation_write(parts, id) ==
    {IF p.id = id
       THEN [p EXCEPT !.invitation_status = "accepted", !.accepted_at = 1]
       ELSE p : p \in parts}

accept_trip_invitation(current_user, trip_id) ==
    LET code == accept_trip_invitation_check(trip_id, current_user, participants)
        found == RowsOf(participants, trip_id, current_user) IN
    /\ resp = NoResponse
    /\ IF code = 200
       THEN participants' = accept_trip_invitation_write(
                                participants, (CHOOSE p \in found : TRUE).id)
       ELSE UNCHANGED participants
    /\ resp' = Response("accept", code, current_user, trip_id, NULL, "none")
    /\ UNCHANGED <<users, trips, inflight, audit_logs, recorded, vault, clock, reset_tokens>>

\* --------------------------------------------------- decline_trip_invitation
decline_trip_invitation_check(trip_id, current_user, parts) ==
    LET found == RowsOf(parts, trip_id, current_user) IN
    IF Cardinality(found) > 1 THEN 500
    ELSE IF found = {} THEN 404
    ELSE LET participant == CHOOSE p \in found : TRUE IN
         IF participant.invitation_status # "pending" THEN 400
         ELSE 200

\* participant.invitation_status = DECLINED
decline_trip_invitation_write(parts, id) ==
    {IF p.id = id THEN [p EXCEPT !.invitation_status = "declined"] ELSE p
        : p \in parts}

decline_trip_invitation(current_user, trip_id) ==
    LET code == decline_trip_invitation_check(trip_id, current_user, participants)
        found == RowsOf(participants, trip_id, current_user) IN
    /\ resp = NoResponse
    /\ IF code = 200
       THEN participants' = decline_trip_invitation_write(
                                participants, (CHOOSE p \in found : TRUE).id)
       ELSE UNCHANGED participants
    /\ resp' = Response("decline", code, current_user, trip_id, NULL, "none")
    /\ UNCHANGED <<users, trips, inflight, audit_logs, recorded, vault, clock, reset_tokens>>

\* -------------------------------------------------------- remove_participant
remove_participant_check(trip_id, participant_id, current_user, parts) ==
    IF TripById(trip_id) = {} THEN 404
    ELSE LET trip == CHOOSE t \in TripById(trip_id) : TRUE
             found == {p \in parts : p.id = participant_id /\ p.trip_id = trip_id} IN
         IF found = {} THEN 404
         ELSE LET participant == CHOOSE p \in found : TRUE
                  is_owner == trip.owner_id = current_user
                                  \/ users[current_user].is_superuser
                  is_self  == participant.user_id = current_user IN
              IF ~is_owner /\ ~is_self THEN 403
              ELSE 204

\* db.delete(participant); db.commit()
delete_write(parts, id) == {p \in parts : p.id # id}

remove_participant(current_user, trip_id, participant_id) ==
    LET code == remove_participant_check(trip_id, participant_id, current_user, participants) IN
    /\ resp = NoResponse
    /\ IF code = 204
       THEN participants' = delete_write(participants, participant_id)
       ELSE UNCHANGED participants
    /\ resp' = Response("remove_participant", code, current_user, trip_id,
                        participant_id, "none")
    /\ UNCHANGED <<users, trips, inflight, audit_logs, recorded, vault, clock, reset_tokens>>

\* ----------------------------------------------- routes/participants.py
create_participant_check(trip_id, current_user) ==
    LET access == participants_verify_trip_access(trip_id, current_user) IN
    IF access = "not_found" THEN 404
    ELSE IF access = "denied" THEN 403
    ELSE 201

\* Participant(trip_id, name, email, role): no user_id, column defaults
create_participant_write(parts, id, trip_id) ==
    parts \cup {[id |-> id, trip_id |-> trip_id, user_id |-> NULL,
                 permission |-> "viewer", invitation_status |-> "pending",
                 accepted_at |-> NULL]}

create_participant(current_user, trip_id) ==
    LET code == create_participant_check(trip_id, current_user) IN
    /\ resp = NoResponse
    /\ code = 201 => NextParticipantId(participants) <= MaxParticipants
    /\ IF code = 201
       THEN participants' = create_participant_write(
                                participants, NextParticipantId(participants), trip_id)
       ELSE UNCHANGED participants
    /\ resp' = Response("create_participant", code, current_user, trip_id, NULL, "none")
    /\ UNCHANGED <<users, trips, inflight, audit_logs, recorded, vault, clock, reset_tokens>>

delete_participant_check(participant_id, current_user, parts) ==
    LET found == {p \in parts : p.id = participant_id} IN
    IF found = {} THEN 404
    ELSE LET participant == CHOOSE p \in found : TRUE
             access == participants_verify_trip_access(participant.trip_id, current_user) IN
         IF access = "not_found" THEN 404
         ELSE IF access = "denied" THEN 403
         ELSE 204

delete_participant(current_user, participant_id) ==
    LET code == delete_participant_check(participant_id, current_user, participants) IN
    /\ resp = NoResponse
    /\ IF code = 204
       THEN participants' = delete_write(participants, participant_id)
       ELSE UNCHANGED participants
    /\ resp' = Response("delete_participant", code, current_user, NULL,
                        participant_id, "none")
    /\ UNCHANGED <<users, trips, inflight, audit_logs, recorded, vault, clock, reset_tokens>>

\* the response leaves the server; the next request can be handled
Respond ==
    /\ resp # NoResponse
    /\ resp' = NoResponse
    /\ recorded' = <<>>
    /\ UNCHANGED <<users, trips, participants, inflight, audit_logs, vault, clock, reset_tokens>>

\* ------------------------------------------------------------------- Spec
\* the values a request can carry
InviteeArgs == UserIds \cup {NULL}
ParticipantIdArgs == ParticipantIds

Next ==
    \/ \E u \in UserIds : create_trip(u, Untracked)
    \/ \E u \in UserIds, t \in TripIds, i \in InviteeArgs, p \in PermissionLevel :
           share_trip(u, t, i, p, Untracked)
    \/ \E u \in UserIds, t \in TripIds : accept_trip_invitation(u, t)
    \/ \E u \in UserIds, t \in TripIds : decline_trip_invitation(u, t)
    \/ \E u \in UserIds, t \in TripIds, id \in ParticipantIdArgs :
           remove_participant(u, t, id)
    \/ \E u \in UserIds, t \in TripIds : create_participant(u, t)
    \/ \E u \in UserIds, id \in ParticipantIdArgs : delete_participant(u, id)
    \/ Respond

Spec == Init /\ [][Next]_vars

\* --------------------------------------------------------------- SpecConc
\* A handler whose checks pass holds what it read until its db.commit();
\* other requests run in between. A handler whose checks fail only reads and
\* answers in the step that read: those runs are the failing steps of Spec.
Begin(req, code, ok) ==
    /\ resp = NoResponse
    /\ code = ok
    /\ BagCardinality(inflight) < MaxInflight
    /\ inflight' = inflight (+) SetToBag({req})
    /\ UNCHANGED <<users, trips, participants, resp, audit_logs, recorded, vault, clock, reset_tokens>>

share_trip_begin(current_user, trip_id, invitee, permission) ==
    Begin(Request("share_trip", current_user, trip_id, invitee, permission),
          share_trip_check(trip_id, current_user, invitee, permission, participants),
          201)

share_trip_commit(req) ==
    /\ resp = NoResponse
    /\ req.op = "share_trip"
    /\ NextParticipantId(participants) <= MaxParticipantsConc
    /\ participants' = share_trip_write(participants, NextParticipantId(participants),
                                        req.trip, req.target, req.perm)
    /\ inflight' = inflight (-) SetToBag({req})
    /\ resp' = Response("share_trip", 201, req.user, req.trip, req.target, req.perm)
    /\ UNCHANGED <<users, trips, audit_logs, recorded, vault, clock, reset_tokens>>

accept_trip_invitation_begin(current_user, trip_id) ==
    LET found == RowsOf(participants, trip_id, current_user)
        id == IF Cardinality(found) = 1 THEN (CHOOSE p \in found : TRUE).id ELSE NULL IN
    Begin(Request("accept", current_user, trip_id, id, "none"),
          accept_trip_invitation_check(trip_id, current_user, participants),
          200)

\* the flush is UPDATE participants SET ... WHERE id = :id; when the row is
\* gone it matches nothing and the ORM raises StaleDataError (500)
update_commit(req, written) ==
    /\ resp = NoResponse
    /\ LET exists == \E p \in participants : p.id = req.target IN
       /\ participants' = IF exists THEN written ELSE participants
       /\ resp' = Response(req.op, IF exists THEN 200 ELSE 500,
                           req.user, req.trip, req.target, req.perm)
    /\ inflight' = inflight (-) SetToBag({req})
    /\ UNCHANGED <<users, trips, audit_logs, recorded, vault, clock, reset_tokens>>

accept_trip_invitation_commit(req) ==
    /\ req.op = "accept"
    /\ update_commit(req, accept_trip_invitation_write(participants, req.target))

decline_trip_invitation_begin(current_user, trip_id) ==
    LET found == RowsOf(participants, trip_id, current_user)
        id == IF Cardinality(found) = 1 THEN (CHOOSE p \in found : TRUE).id ELSE NULL IN
    Begin(Request("decline", current_user, trip_id, id, "none"),
          decline_trip_invitation_check(trip_id, current_user, participants),
          200)

decline_trip_invitation_commit(req) ==
    /\ req.op = "decline"
    /\ update_commit(req, decline_trip_invitation_write(participants, req.target))

remove_participant_begin(current_user, trip_id, participant_id) ==
    Begin(Request("remove_participant", current_user, trip_id, participant_id, "none"),
          remove_participant_check(trip_id, participant_id, current_user, participants),
          204)

\* DELETE FROM participants WHERE id = :id; a row already gone is only warned about
remove_participant_commit(req) ==
    /\ resp = NoResponse
    /\ req.op = "remove_participant"
    /\ participants' = delete_write(participants, req.target)
    /\ inflight' = inflight (-) SetToBag({req})
    /\ resp' = Response("remove_participant", 204, req.user, req.trip, req.target, "none")
    /\ UNCHANGED <<users, trips, audit_logs, recorded, vault, clock, reset_tokens>>

NextConc ==
    \/ \E u \in UserIds : create_trip(u, Untracked)
    \/ \E u \in UserIds, t \in TripIds, i \in InviteeArgs, p \in PermissionLevel :
           share_trip_begin(u, t, i, p)
    \/ \E req \in BagToSet(inflight) : share_trip_commit(req)
    \/ \E u \in UserIds, t \in TripIds : accept_trip_invitation_begin(u, t)
    \/ \E req \in BagToSet(inflight) : accept_trip_invitation_commit(req)
    \/ \E u \in UserIds, t \in TripIds : decline_trip_invitation_begin(u, t)
    \/ \E req \in BagToSet(inflight) : decline_trip_invitation_commit(req)
    \/ \E u \in UserIds, t \in TripIds, id \in 1..MaxParticipantsConc :
           remove_participant_begin(u, t, id)
    \/ \E req \in BagToSet(inflight) : remove_participant_commit(req)
    \/ Respond

SpecConc == Init /\ [][NextConc]_vars

\* --------------------------------------------------------------- SpecAudit
\* the handlers of routes/auth.py, routes/users.py and routes/admin.py that
\* write the users table and the audit table; every audit write can fail

\* routes/auth.py get_current_active_user for the user a token names:
\* 401 when the user is gone, 400 when inactive, 0 when it returns the user
get_current_active_user(user) ==
    IF user \notin DOMAIN users THEN 401
    ELSE IF ~users[user].is_active THEN 400
    ELSE 0

\* routes/admin.py require_admin
require_admin(user) ==
    IF get_current_active_user(user) # 0 THEN get_current_active_user(user)
    ELSE IF ~users[user].is_superuser THEN 403
    ELSE 0

\* the names a login form can carry: the registered usernames (a user's
\* username stands for its id) and one that was never registered
LoginNames == UserIds \cup {MaxUsers + 1}

\* login that does not audit the attempt of an inactive user
login_entry_noinactive(username, password_ok) ==
    IF username \notin DOMAIN users \/ ~password_ok
    THEN <<AuditLog("auth.login_failed", NULL, username, NULL, "failure")>>
    ELSE IF ~users[username].is_active
    THEN <<>>
    ELSE <<AuditLog("auth.login", username, username, NULL, "success")>>

\* routes/auth.py login: the audit entries its branches pass to the recorder
login_entry(username, password_ok) ==
    IF username \notin DOMAIN users \/ ~password_ok
    THEN <<AuditLog("auth.login_failed", NULL, username, NULL, "failure")>>
    ELSE IF ~users[username].is_active
    THEN <<AuditLog("auth.login_failed", username, username, NULL, "failure")>>
    ELSE <<AuditLog("auth.login", username, username, NULL, "success")>>

\* routes/auth.py login: the status of its branches
login_check(username, password_ok) ==
    IF username \notin DOMAIN users \/ ~password_ok THEN 401
    ELSE IF ~users[username].is_active THEN 400
    ELSE 200

\* limited: the limiter of the route (RateLimits.AUTH_LOGIN) has no request
\* left for this client in the current window and answers 429 itself; the
\* handler's body does not run
login(username, password_ok, limited, fault) ==
    LET code == login_check(username, password_ok)
        entries == login_entry(username, password_ok) IN
    /\ resp = NoResponse
    /\ IF limited \/ entries = <<>>
       THEN UNCHANGED <<audit_logs, recorded>>
       ELSE log_event(entries[1], fault)
    \* the failing branches raise after the call; the success branch reads
    \* user.username for the token
    /\ resp' = Response("login",
                        IF limited THEN 429
                        ELSE IF entries = <<>> THEN code
                        ELSE status_after_audit(code, fault, code = 200),
                        username, NULL, IF password_ok THEN 1 ELSE NULL, "none")
    /\ UNCHANGED <<users, trips, participants, inflight, vault, clock, reset_tokens>>

\* routes/admin.py update_user_admin, for the is_active field
update_user_admin_check(admin, user_id) ==
    IF require_admin(admin) # 0 THEN require_admin(admin)
    ELSE IF user_id \notin DOMAIN users THEN 404
    ELSE 200

update_user_admin(admin, user_id, is_active, fault) ==
    LET code == update_user_admin_check(admin, user_id) IN
    /\ resp = NoResponse
    /\ IF code = 200
       THEN /\ users' = [users EXCEPT ![user_id].is_active = is_active]
            /\ log_event(AuditLog("admin.user_update", admin, admin, user_id, "success"),
                         fault)
       ELSE UNCHANGED <<users, audit_logs, recorded>>
    \* return user: the route has no response model, so the answer is
    \* encoded from the object's loaded attributes and no attribute is read
    /\ resp' = Response("update_user_admin",
                        IF code = 200 THEN status_after_audit(code, fault, FALSE)
                        ELSE code,
                        admin, NULL, user_id, "none")
    /\ UNCHANGED <<trips, participants, inflight, vault, clock, reset_tokens>>

\* deleting the user together with the audit entries that refer to it
on_user_delete_cascade(logs, user_id, fk_enforced) ==
    SelectSeq(logs, LAMBDA e : e.user_id # user_id)

\* audit_logs.user_id is ForeignKey("users.id", ondelete="SET NULL"): where
\* the database enforces foreign keys the entries of a deleted user lose
\* their user_id and keep their username; the default SQLite connection
\* does not enforce them and leaves the entries as they are
on_user_delete(logs, user_id, fk_enforced) ==
    [i \in 1..Len(logs) |->
        IF fk_enforced /\ logs[i].user_id = user_id
        THEN [logs[i] EXCEPT !.user_id = NULL]
        ELSE logs[i]]

\* the INSERT of an entry whose user_id names no user fails in db.commit()
\* where foreign keys are enforced
fault_of_insert(log_entry, fault, fk_enforced, users_after) ==
    IF /\ fk_enforced
       /\ log_entry.user_id # NULL
       /\ log_entry.user_id \notin users_after
       /\ fault \in {"none", "refresh"}
    THEN "commit"
    ELSE fault

\* routes/users.py delete_account. db.delete(current_user) deletes the
\* user's trips (cascade) and clears user_id on the user's participant
\* rows; a participant row of a deleted trip would have its trip_id
\* (NOT NULL) cleared, which fails the commit
delete_account_check(user) ==
    IF get_current_active_user(user) # 0 THEN get_current_active_user(user)
    ELSE IF \E p \in participants, t \in trips :
                t.owner_id = user /\ p.trip_id = t.id
    THEN 500
    ELSE 204

delete_account(user, fk_enforced, fault) ==
    LET code == delete_account_check(user)
        users_after == DOMAIN users \ {user}
        log_entry == AuditLog("user_account.delete", user, user, user, "success")
        met == fault_of_insert(log_entry, fault, fk_enforced, users_after) IN
    /\ resp = NoResponse
    /\ IF code = 204
       THEN /\ users' = [u \in users_after |-> users[u]]
            /\ trips' = {t \in trips : t.owner_id # user}
            /\ participants' = {IF p.user_id = user THEN [p EXCEPT !.user_id = NULL]
                                ELSE p : p \in participants}
            /\ log_event_on(on_user_delete(audit_logs, user, fk_enforced),
                            log_entry, met)
            \* return None
            /\ resp' = Response("delete_account", status_after_audit(code, met, FALSE),
                                user, NULL, NULL, "none")
       ELSE /\ UNCHANGED <<users, trips, participants, audit_logs, recorded>>
            /\ resp' = Response("delete_account", code, user, NULL, NULL, "none")
    /\ UNCHANGED <<inflight, vault, clock, reset_tokens>>

\* logins and account deletions: the audit table under the deletion of the
\* principals its entries name
NextAudit ==
    \/ \E n \in LoginNames, ok \in BOOLEAN, l \in BOOLEAN, f \in AuditFaults :
           login(n, ok, l, f)
    \/ \E u \in UserIds, fk \in BOOLEAN, f \in AuditFaults : delete_account(u, fk, f)
    \/ Respond

SpecAudit == Init /\ [][NextAudit]_vars

\* logins of users an administrator activates and deactivates
NextLogin ==
    \/ \E n \in LoginNames, ok \in BOOLEAN, l \in BOOLEAN, f \in AuditFaults :
           login(n, ok, l, f)
    \/ \E a \in UserIds, u \in UserIds, active \in BOOLEAN, f \in AuditFaults :
           update_user_admin(a, u, active, f)
    \/ Respond

SpecLogin == Init /\ [][NextLogin]_vars

\* -------------------------------------------------------------- SpecVerify
\* calls of the two verifiers on the tables that create_trip, share_trip and
\* accept_trip_invitation build. The audit store works while a trip is
\* created and can fail in any way while a verifier runs; of the audit
\* entries this specification keeps those of create_trip. Invitations name
\* a registered user and one of the two levels a participant row is read for

\* a verifier that records a security event when it denies
verify_records_ondenied(outcome, user, trip_id) ==
    IF outcome = "denied"
    THEN <<AuditLog("security.permission_denied", user, user, trip_id, "failure")>>
    ELSE <<>>

\* the entries verify_trip_access passes to the recorder: its body selects
\* and raises, and calls neither audit_service nor db.add/commit
verify_records(outcome, user, trip_id) == <<>>

\* the status a verifier's outcome becomes
verify_status(outcome) ==
    CASE outcome = "denied" -> 403
      [] outcome = "not_found" -> 404
      [] outcome = "error" -> 500
      [] OTHER -> 200

RequiredLevel(require_edit) == IF require_edit THEN "editor" ELSE "viewer"

verify_call(op, outcome, user, trip_id, require_edit, fault) ==
    LET entries == verify_records(outcome, user, trip_id) IN
    /\ resp = NoResponse
    /\ IF entries = <<>>
       THEN UNCHANGED <<audit_logs, recorded>>
       ELSE log_event(entries[1], fault)
    /\ resp' = Response(op,
                        IF entries = <<>> THEN verify_status(outcome)
                        ELSE status_after_audit(verify_status(outcome), fault, FALSE),
                        user, trip_id, NULL, RequiredLevel(require_edit))
    /\ UNCHANGED <<users, trips, participants, inflight, vault, clock, reset_tokens>>

\* routes/trips.py verify_trip_access, called on a trip the caller has loaded
verify_trip_access_call(trip_id, user, require_edit, fault) ==
    /\ TripById(trip_id) # {}
    /\ verify_call("verify_trip_access",
                   verify_trip_access(CHOOSE t \in TripById(trip_id) : TRUE,
                                      user, participants, require_edit),
                   user, trip_id, require_edit, fault)

\* utils/access_control.py verify_trip_access, called with a trip id
access_control_verify_trip_access_call(trip_id, current_user, require_edit, fault) ==
    /\ current_user \in DOMAIN users
    /\ verify_call("access_control.verify_trip_access",
                   access_control_verify_trip_access(trip_id, current_user,
                                                     participants, require_edit),
                   current_user, trip_id, require_edit, fault)

NextVerify ==
    \/ \E u \in UserIds : create_trip(u, "none")
    \/ \E u \in UserIds, t \in TripIds, i \in UserIds, p \in {"editor", "viewer"} :
           share_trip(u, t, i, p, Untracked)
    \/ \E u \in UserIds, t \in TripIds : accept_trip_invitation(u, t)
    \/ \E t \in TripIds, u \in UserIds, e \in BOOLEAN, f \in AuditFaults :
           verify_trip_access_call(t, u, e, f)
    \/ \E t \in TripIds, u \in UserIds, e \in BOOLEAN, f \in AuditFaults :
           access_control_verify_trip_access_call(t, u, e, f)
    \/ Respond

SpecVerify == Init /\ [][NextVerify]_vars

\* ----------------------------------------------------------- SpecTripAudit
\* the trip handlers with the audit table kept and every audit write able
\* to fail

\* routes/trips.py update_trip: the 401/400 of get_current_active_user, 404,
\* the 403 of verify_trip_ownership, or 200
update_trip_check(trip_id, current_user) ==
    IF get_current_active_user(current_user) # 0
    THEN get_current_active_user(current_user)
    ELSE IF TripById(trip_id) = {} THEN 404
    ELSE IF ~verify_trip_ownership(CHOOSE t \in TripById(trip_id) : TRUE,
                                   current_user)
    THEN 403
    ELSE 200

\* TripUpdate that declares owner_id
TripUpdate_owner_id_declared(body_owner_id) == body_owner_id

\* the owner_id that TripUpdate keeps of a request body: owner_id is not a
\* field of the model, so validation drops it and model_dump never has it
TripUpdate_owner_id(body_owner_id) == NULL

\* the setattr loop of update_trip over update_data; of the columns it can
\* set (title, dates, cover_image, ..., and updated_at) the trip record here
\* keeps none, only id and owner_id
update_trip_write(trip, update_owner_id) ==
    IF update_owner_id = NULL THEN trip
    ELSE [trip EXCEPT !.owner_id = update_owner_id]

\* body_owner_id: the "owner_id" of the request's JSON body, NULL when it
\* has none
update_trip(current_user, trip_id, body_owner_id, fault) ==
    LET code == update_trip_check(trip_id, current_user) IN
    /\ resp = NoResponse
    /\ IF code = 200
       THEN /\ trips' = {IF t.id = trip_id
                         THEN update_trip_write(t, TripUpdate_owner_id(body_owner_id))
                         ELSE t : t \in trips}
            /\ log_event(AuditLog("trip.update", current_user, current_user,
                                  trip_id, "success"), fault)
       ELSE UNCHANGED <<trips, audit_logs, recorded>>
    \* return existing_trip
    /\ resp' = Response("update_trip",
                        IF code = 200 THEN status_after_audit(code, fault, TRUE)
                        ELSE code,
                        current_user, trip_id, body_owner_id, "none")
    /\ UNCHANGED <<users, participants, inflight, vault, clock, reset_tokens>>

\* routes/trips.py upload_trip_image: sets cover_image and updated_at, which
\* the trip record here does not keep; it makes no audit call
upload_trip_image(current_user, trip_id) ==
    /\ resp = NoResponse
    /\ resp' = Response("upload_trip_image", update_trip_check(trip_id, current_user),
                        current_user, trip_id, NULL, "none")
    /\ UNCHANGED <<users, trips, participants, inflight, audit_logs, recorded, vault, clock, reset_tokens>>

\* delete_trip without the ownership check
delete_trip_check_noowner(trip_id, current_user, parts) ==
    IF get_current_active_user(current_user) # 0
    THEN get_current_active_user(current_user)
    ELSE IF TripById(trip_id) = {} THEN 404
    ELSE IF \E p \in parts : p.trip_id = trip_id THEN 500
    ELSE 204

\* routes/trips.py delete_trip. Deleting a trip that has participant rows
\* fails in the commit: the participants backref has no delete cascade, so
\* the flush sets their trip_id, a NOT NULL column, to NULL
delete_trip_check(trip_id, current_user, parts) ==
    IF update_trip_check(trip_id, current_user) # 200
    THEN update_trip_check(trip_id, current_user)
    ELSE IF \E p \in parts : p.trip_id = trip_id THEN 500
    ELSE 204

delete_trip(current_user, trip_id, fault) ==
    LET code == delete_trip_check(trip_id, current_user, participants) IN
    /\ resp = NoResponse
    /\ IF code = 204
       THEN /\ trips' = {t \in trips : t.id # trip_id}
            /\ log_event(AuditLog("trip.delete", current_user, current_user,
                                  trip_id, "success"), fault)
       ELSE UNCHANGED <<trips, audit_logs, recorded>>
    \* return None
    /\ resp' = Response("delete_trip",
                        IF code = 204 THEN status_after_audit(code, fault, FALSE)
                        ELSE code,
                        current_user, trip_id, NULL, "none")
    /\ UNCHANGED <<users, participants, inflight, vault, clock, reset_tokens>>

NextTripAudit ==
    \/ \E u \in UserIds, f \in AuditFaults : create_trip(u, f)
    \/ \E u \in UserIds, t \in TripIds, f \in AuditFaults : update_trip(u, t, NULL, f)
    \/ \E u \in UserIds, t \in TripIds, i \in InviteeArgs, p \in PermissionLevel,
          f \in AuditFaults :
           share_trip(u, t, i, p, f)
    \/ \E u \in UserIds, t \in TripIds : accept_trip_invitation(u, t)
    \/ Respond

SpecTripAudit == Init /\ [][NextTripAudit]_vars

\* ------------------------------------------------------------ SpecSettings
\* routes/user_settings.py: the per-user secret and its salt, and
\* routes/ai.py get_user_ai_service, which uses them

\* a column that is NULL: the handlers test both columns for truth only
\* (`if not current_user.encryption_salt`), which NULL and "" fail alike
NoSalt == ""
NoKey == EmptyCiphertext

\* the salts generate_salt can return: the canonical encoding of random bytes
GeneratedSalts == {"QQ==", "Qg=="}

\* the keys a request can carry (api_key has min_length 10, so never empty)
ApiKeys == Plaintexts \ {""}

\* SECRET_KEY of the running deployment
SECRET_KEY == "secret-1"

\* a handler that generates a salt on every update
salt_for_update_fresh(encryption_salt, generated) == generated

\* update_ai_settings: the stored salt, or a generated one when none is stored
salt_for_update(encryption_salt, generated) ==
    IF encryption_salt = NoSalt THEN generated ELSE encryption_salt

update_ai_settings_check(user, provider_valid) ==
    IF get_current_active_user(user) # 0 THEN get_current_active_user(user)
    ELSE IF ~provider_valid THEN 400
    ELSE 200

update_ai_settings(user, provider_valid, api_key, generated) ==
    LET code == update_ai_settings_check(user, provider_valid) IN
    /\ resp = NoResponse
    /\ IF code = 200
       THEN LET salt == salt_for_update(users[user].encryption_salt, generated)
                encrypted_key == encrypt(api_key, salt, SECRET_KEY) IN
            IF encrypted_key.raised = "none"
            THEN /\ users' = [users EXCEPT
                                ![user].encryption_salt = salt,
                                ![user].encrypted_api_key = encrypted_key.value]
                 /\ resp' = Response("update_ai_settings", 200, user, NULL, NULL, api_key)
            ELSE /\ UNCHANGED users
                 /\ resp' = Response("update_ai_settings", 500, user, NULL, NULL, api_key)
       ELSE /\ UNCHANGED users
            /\ resp' = Response("update_ai_settings", code, user, NULL, NULL, api_key)
    /\ UNCHANGED <<trips, participants, inflight, audit_logs, recorded, vault, clock, reset_tokens>>

\* a delete that clears the salt and leaves the key
delete_ai_settings_write_salt(user_row) == [user_row EXCEPT !.encryption_salt = NoSalt]

\* delete_ai_settings: the key is cleared, the salt is kept
delete_ai_settings_write(user_row) == [user_row EXCEPT !.encrypted_api_key = NoKey]

delete_ai_settings(user) ==
    LET code == get_current_active_user(user) IN
    /\ resp = NoResponse
    /\ IF code = 0
       THEN users' = [users EXCEPT ![user] = delete_ai_settings_write(users[user])]
       ELSE UNCHANGED users
    /\ resp' = Response("delete_ai_settings", IF code = 0 THEN 200 ELSE code,
                        user, NULL, NULL, "none")
    /\ UNCHANGED <<trips, participants, inflight, audit_logs, recorded, vault, clock, reset_tokens>>

\* routes/ai.py get_user_ai_service: the api key it hands to the AI service,
\* or the status it raises (ai_provider is set and cleared with the key)
get_user_ai_service(user_row) ==
    IF user_row.encrypted_api_key = NoKey THEN [code |-> 428, api_key |-> ""]
    ELSE IF user_row.encryption_salt = NoSalt THEN [code |-> 500, api_key |-> ""]
    ELSE LET api_key == decrypt(user_row.encrypted_api_key,
                                user_row.encryption_salt, SECRET_KEY).value IN
         IF api_key = "" THEN [code |-> 500, api_key |-> ""]
         ELSE [code |-> 200, api_key |-> api_key]

\* a request to an AI endpoint, up to the key it obtains
use_ai_service(user) ==
    LET code == get_current_active_user(user) IN
    /\ resp = NoResponse
    /\ resp' = IF code # 0
               THEN Response("use_ai_service", code, user, NULL, NULL, "none")
               ELSE Response("use_ai_service", get_user_ai_service(users[user]).code,
                             user, NULL, NULL, get_user_ai_service(users[user]).api_key)
    /\ UNCHANGED <<users, trips, participants, inflight, audit_logs, recorded, vault, clock, reset_tokens>>

NextSettings ==
    \/ \E u \in UserIds, v \in BOOLEAN, k \in ApiKeys, g \in GeneratedSalts :
           update_ai_settings(u, v, k, g)
    \/ \E u \in UserIds : delete_ai_settings(u)
    \/ \E u \in UserIds : use_ai_service(u)
    \/ Respond

SpecSettings == Init /\ [][NextSettings]_vars

\* --------------------------------------------------------------- SpecTrips
\* the handlers that touch an existing trip or its sharing state

\* the owner_id a request body can carry: none, the administrator's id, a
\* regular user's id
BodyOwnerIds == {NULL} \cup {u \in UserIds : u <= 2}

NextTrips ==
    \/ \E u \in UserIds : create_trip(u, Untracked)
    \/ \E u \in UserIds, t \in TripIds, o \in BodyOwnerIds :
           update_trip(u, t, o, Untracked)
    \/ \E u \in UserIds, t \in TripIds : upload_trip_image(u, t)
    \/ \E u \in UserIds, t \in TripIds, i \in UserIds, p \in {"editor", "viewer"} :
           share_trip(u, t, i, p, Untracked)
    \/ \E u \in UserIds, t \in TripIds : accept_trip_invitation(u, t)
    \/ \E u \in UserIds, t \in TripIds : decline_trip_invitation(u, t)
    \/ \E u \in UserIds, t \in TripIds, p \in ParticipantIdArgs :
           remove_participant(u, t, p)
    \/ Respond

SpecTrips == Init /\ [][NextTrips]_vars

\* ----------------------------------------------------------- SpecTripWrite
\* update_trip and delete_trip called by every kind of caller, the request
\* without a token (NULL) included, on trips that are shared and accepted
Callers == UserIds \cup {NULL}

NextTripWrite ==
    \/ \E u \in UserIds : create_trip(u, Untracked)
    \/ \E u \in Callers, t \in TripIds : update_trip(u, t, NULL, Untracked)
    \/ \E u \in Callers, t \in TripIds : delete_trip(u, t, Untracked)
    \/ \E u \in UserIds, t \in TripIds, i \in UserIds, p \in {"editor", "viewer"} :
           share_trip(u, t, i, p, Untracked)
    \/ \E u \in UserIds, t \in TripIds : accept_trip_invitation(u, t)
    \/ Respond

SpecTripWrite == Init /\ [][NextTripWrite]_vars

\* ---------------------------------------------------------------- SpecRead
\* the handlers that read a trip and its parts, called by owners, invited
\* users, administrators, deactivated users and requests without a token

\* the status a verifier's outcome becomes in a read handler
read_status(outcome) ==
    IF outcome \in {"owner", "editor", "viewer", "ok"} THEN 200
    ELSE verify_status(outcome)

\* routes/trips.py get_trip
get_trip_check(trip_id, caller, parts) ==
    IF TripById(trip_id) = {} THEN 404
    ELSE IF get_optional_user(caller) # NULL
    THEN read_status(verify_trip_access(CHOOSE t \in TripById(trip_id) : TRUE,
                                        caller, parts, FALSE))
    ELSE IF ~ENABLE_DEMO_MODE THEN 401
    ELSE 200

\* routes/trips.py get_trip_summary
get_trip_summary_check(trip_id, caller) ==
    IF TripById(trip_id) = {} THEN 404
    ELSE IF /\ get_optional_user(caller) # NULL
            /\ (CHOOSE t \in TripById(trip_id) : TRUE).owner_id # caller
    THEN 403
    ELSE 200

\* routes/places.py get_places
get_places_check(trip_id, caller) ==
    IF get_current_active_user(caller) # 0 THEN get_current_active_user(caller)
    ELSE read_status(places_verify_trip_access(trip_id, caller))

\* routes/diary.py get_diary_entries
get_diary_entries_check(trip_id, caller, parts) ==
    IF get_current_active_user(caller) # 0 THEN get_current_active_user(caller)
    ELSE read_status(access_control_verify_trip_access(trip_id, caller, parts, FALSE))

\* a read answers and writes nothing
read(op, code, caller, trip_id) ==
    /\ resp = NoResponse
    /\ resp' = Response(op, code, caller, trip_id, NULL, "none")
    /\ UNCHANGED <<users, trips, participants, inflight, audit_logs, recorded, vault, clock, reset_tokens>>

get_trip(caller, trip_id) ==
    /\ trip_id \in TripIds
    /\ read("get_trip", get_trip_check(trip_id, caller, participants), caller, trip_id)

get_trip_summary(caller, trip_id) ==
    /\ trip_id \in TripIds
    /\ read("get_trip_summary", get_trip_summary_check(trip_id, caller), caller, trip_id)

get_places(caller, trip_id) ==
    /\ trip_id \in TripIds
    /\ read("get_places", get_places_check(trip_id, caller), caller, trip_id)

get_diary_entries(caller, trip_id) ==
    /\ trip_id \in TripIds
    /\ read("get_diary_entries", get_diary_entries_check(trip_id, caller, participants),
            caller, trip_id)

\* get_trips that lists every trip the caller has a participant row on
get_trips_result_anystatus(caller, trip_rows, parts) ==
    IF get_optional_user(caller) = NULL
    THEN IF ~ENABLE_DEMO_MODE THEN [code |-> 401, ids |-> {}]
         ELSE [code |-> 200, ids |-> {t.id : t \in trip_rows}]
    ELSE IF users[caller].is_superuser
    THEN [code |-> 200, ids |-> {t.id : t \in trip_rows}]
    ELSE LET shared_trip_ids == {p.trip_id : p \in {q \in parts : q.user_id = caller}} IN
         [code |-> 200,
          ids |-> {t.id : t \in {r \in trip_rows :
                                   r.owner_id = caller \/ r.id \in shared_trip_ids}}]

\* routes/trips.py get_trips: the status and the ids of the trips returned
\* (with a limit that does not cut the list)
get_trips_result(caller, trip_rows, parts) ==
    IF get_optional_user(caller) = NULL
    THEN IF ~ENABLE_DEMO_MODE THEN [code |-> 401, ids |-> {}]
         ELSE [code |-> 200, ids |-> {t.id : t \in trip_rows}]
    ELSE IF users[caller].is_superuser
    THEN [code |-> 200, ids |-> {t.id : t \in trip_rows}]
    ELSE LET shared_trip_ids ==
                 {p.trip_id : p \in {q \in parts :
                                       /\ q.user_id = caller
                                       /\ q.invitation_status = "accepted"}} IN
         [code |-> 200,
          ids |-> {t.id : t \in {r \in trip_rows :
                                   r.owner_id = caller \/ r.id \in shared_trip_ids}}]

\* the response's trip field holds the ids of the list
get_trips(caller) ==
    /\ resp = NoResponse
    /\ resp' = Response("get_trips", get_trips_result(caller, trips, participants).code,
                        caller, get_trips_result(caller, trips, participants).ids,
                        NULL, "none")
    /\ UNCHANGED <<users, trips, participants, inflight, audit_logs, recorded, vault, clock, reset_tokens>>

\* the users get_current_active_user lets through; share_trip and
\* accept_trip_invitation are taken for these callers
ActiveUsers == {u \in DOMAIN users : users[u].is_active}

NextRead ==
    \/ \E u \in Callers : create_trip(u, Untracked)
    \/ \E u \in Callers, t \in TripIds : update_trip(u, t, NULL, Untracked)
    \/ \E u \in ActiveUsers, t \in TripIds, i \in UserIds, p \in {"editor", "viewer"} :
           share_trip(u, t, i, p, Untracked)
    \/ \E u \in ActiveUsers, t \in TripIds : accept_trip_invitation(u, t)
    \/ \E a \in UserIds, u \in UserIds, active \in BOOLEAN :
           update_user_admin(a, u, active, Untracked)
    \/ \E u \in Callers, t \in TripIds : get_trip(u, t)
    \/ \E u \in Callers, t \in TripIds : get_trip_summary(u, t)
    \/ \E u \in Callers, t \in TripIds : get_places(u, t)
    \/ \E u \in Callers, t \in TripIds : get_diary_entries(u, t)
    \/ \E u \in Callers : get_trips(u)
    \/ Respond

SpecRead == Init /\ [][NextRead]_vars

\* ---------------------------------------------------------------- SpecList
\* the trip list next to the sharing handlers
NextList ==
    \/ \E u \in UserIds : create_trip(u, Untracked)
    \/ \E u \in UserIds, t \in TripIds, i \in UserIds, p \in {"editor", "viewer"} :
           share_trip(u, t, i, p, Untracked)
    \/ \E u \in UserIds, t \in TripIds : accept_trip_invitation(u, t)
    \/ \E u \in UserIds, t \in TripIds : decline_trip_invitation(u, t)
    \/ \E u \in Callers : get_trips(u)
    \/ Respond

SpecList == Init /\ [][NextList]_vars

\* --------------------------------------------------------------- SpecReset
\* routes/password_reset.py: a reset token is requested, mailed and
\* confirmed. confirm_password_reset is split at its awaits: the SELECT of
\* the user with the checks (.._begin, or .._reject when a check fails) and
\* db.commit() with what follows (.._commit).

\* datetime.now() has a finer resolution than the whole seconds a JWT keeps
\* in "exp"
TicksPerSecond == 2

RESET_TOKEN_EXPIRE_MINUTES == 60

ExpireTicks == RESET_TOKEN_EXPIRE_MINUTES * 60 * TicksPerSecond

\* the ticks at which handlers read the clock: the first few, and the first
\* few after the lifetime of a token made at the start
Ticks == (1..MaxTicks) \cup ((ExpireTicks + 1)..(ExpireTicks + MaxTicks))

\* the time that passes before a handler reads the clock: a tick, a second,
\* or more than the lifetime of a token
Delays == {1, TicksPerSecond, ExpireTicks + TicksPerSecond}

NewPasswords == {"new-password-a", "new-password-b"}

\* the users that ask for a reset; the e-mail address of a user is the
\* user's id, NULL is an address no user has
ResetEmails == {u \in UserIds : u <= 2} \cup {NULL}

\* create_reset_token at tick `now`: the claims of the JWT; "exp" is in
\* whole seconds, nonce is secrets.token_hex(16)
create_reset_token(email, user_id, now, nonce) ==
    [sub |-> email, user_id |-> user_id,
     exp |-> (now \div TicksPerSecond) + RESET_TOKEN_EXPIRE_MINUTES * 60,
     type |-> "password_reset", nonce |-> nonce]

ACCESS_TOKEN_EXPIRE_MINUTES == 60 * 24 * 7

\* create_access_token of routes/auth.py, signed with the same JWT_SECRET:
\* the payload has "sub" and "exp" only, so "user_id" and "type" read as None
access_token(user, now, nonce) ==
    [sub |-> user, user_id |-> NULL,
     exp |-> (now \div TicksPerSecond) + ACCESS_TOKEN_EXPIRE_MINUTES * 60,
     type |-> "none", nonce |-> nonce]

\* jwt.decode at tick `now`: the payload, or JWTError once "exp" has passed
jwt_decode(token, now) ==
    IF token.exp < now \div TicksPerSecond THEN "JWTError" ELSE "payload"

\* token_issued_at of verify_reset_token, in ticks
token_issued_at(token) ==
    (token.exp - RESET_TOKEN_EXPIRE_MINUTES * 60) * TicksPerSecond

\* verify_reset_token: the status it ends the request with, 200 when it
\* returns the payload. tz_kept: the database gives password_changed_at back
\* with its time zone (PostgreSQL); the default SQLite database gives a
\* naive datetime, and comparing it with the aware token_issued_at raises
\* TypeError, which the except JWTError branch does not catch
verify_reset_token(token, password_changed_at, now, tz_kept) ==
    IF jwt_decode(token, now) = "JWTError" THEN 400
    ELSE IF token.type # "password_reset" THEN 400
    ELSE IF password_changed_at # NULL
    THEN IF ~tz_kept THEN 500
         ELSE IF token_issued_at(token) < password_changed_at THEN 400
         ELSE 200
    ELSE 200

\* confirm_password_reset up to db.commit(): the status of the first check
\* that fails, else 200
confirm_password_reset_check(token, now, tz_kept) ==
    IF jwt_decode(token, now) = "JWTError" THEN 400
    ELSE IF token.type # "password_reset" THEN 400
    ELSE IF token.user_id \notin DOMAIN users \/ token.sub # token.user_id THEN 400
    ELSE IF ~users[token.user_id].is_active THEN 400
    ELSE verify_reset_token(token, users[token.user_id].password_changed_at,
                            now, tz_kept)

\* the nonce of the next token: tokens are numbered as they are made
NextNonce == Cardinality(reset_tokens) + 1

\* request_password_reset: a token is made and mailed when the address
\* belongs to a user; the answer is the same either way
request_password_reset(email, d, fault) ==
    /\ resp = NoResponse
    /\ clock + d \in Ticks
    /\ clock' = clock + d
    /\ IF email \in DOMAIN users
       THEN /\ Cardinality(reset_tokens) < MaxResetTokens
            /\ reset_tokens' = reset_tokens \cup
                   {[token |-> create_reset_token(email, email, clock', NextNonce),
                     made_at |-> clock']}
            /\ log_event(AuditLog("auth.password_reset_requested", email, email,
                                  NULL, "success"), fault)
       ELSE UNCHANGED <<reset_tokens, audit_logs, recorded>>
    /\ resp' = Response("request_password_reset",
                        IF email \in DOMAIN users
                        THEN status_after_audit(200, fault, TRUE) ELSE 200,
                        NULL, NULL, NULL, "none")
    /\ UNCHANGED <<users, trips, participants, inflight, vault>>

\* login hands out an access token, which a client may send to the reset
\* endpoint
issue_access_token(user, d) ==
    /\ resp = NoResponse
    /\ user \in DOMAIN users
    /\ clock + d \in Ticks
    /\ clock' = clock + d
    /\ Cardinality(reset_tokens) < MaxResetTokens
    /\ reset_tokens' = reset_tokens \cup
           {[token |-> access_token(user, clock', NextNonce), made_at |-> clock']}
    /\ resp' = Response("login", 200, user, NULL, NULL, "none")
    /\ UNCHANGED <<users, trips, participants, inflight, audit_logs, recorded, vault>>

\* a confirm request that has passed its checks and waits in db.commit()
ResetRequest(user, nonce, new_password, now) ==
    [op |-> "confirm_password_reset", user |-> user, target |-> nonce,
     new_password |-> new_password, now |-> now]

\* a check fails: the handler answers in the step that read
confirm_password_reset_reject(sent, new_password, d, tz_kept) ==
    /\ resp = NoResponse
    /\ clock + d \in Ticks
    /\ clock' = clock + d
    /\ confirm_password_reset_check(sent.token, clock', tz_kept) # 200
    /\ resp' = Response("confirm_password_reset",
                        confirm_password_reset_check(sent.token, clock', tz_kept),
                        sent.token.user_id, NULL, sent.token.nonce, "none")
    /\ UNCHANGED <<users, trips, participants, inflight, audit_logs, recorded,
                   vault, reset_tokens>>

\* the checks pass: now = datetime.now() is read and the new values are set
\* on the session's User object
confirm_password_reset_begin(sent, new_password, d, tz_kept) ==
    /\ resp = NoResponse
    /\ clock + d \in Ticks
    /\ clock' = clock + d
    /\ confirm_password_reset_check(sent.token, clock', tz_kept) = 200
    /\ BagCardinality(inflight) < MaxInflight
    /\ inflight' = inflight (+) SetToBag({ResetRequest(sent.token.user_id,
                                                       sent.token.nonce,
                                                       new_password, clock')})
    /\ UNCHANGED <<users, trips, participants, resp, audit_logs, recorded,
                   vault, reset_tokens>>

\* db.commit(): the UPDATE of hashed_password and password_changed_at
confirm_password_reset_write(user_rows, req) ==
    [user_rows EXCEPT ![req.user].hashed_password = hash_password(req.new_password),
                      ![req.user].password_changed_at = req.now]

confirm_password_reset_commit(req, fault) ==
    /\ resp = NoResponse
    /\ req.op = "confirm_password_reset"
    /\ users' = confirm_password_reset_write(users, req)
    /\ inflight' = inflight (-) SetToBag({req})
    /\ log_event(AuditLog("auth.password_reset_completed", req.user, req.user,
                          NULL, "success"), fault)
    \* logger.info(..., user_id=user.id) reads the User object
    /\ resp' = Response("confirm_password_reset", status_after_audit(200, fault, TRUE),
                        req.user, NULL, req.target, "none")
    /\ UNCHANGED <<trips, participants, vault, clock, reset_tokens>>

NextReset ==
    \/ \E e \in ResetEmails, d \in Delays : request_password_reset(e, d, Untracked)
    \/ \E u \in ResetEmails \ {NULL}, d \in Delays : issue_access_token(u, d)
    \/ \E k \in reset_tokens, pw \in NewPasswords, d \in Delays, tz \in BOOLEAN :
           confirm_password_reset_reject(k, pw, d, tz)
    \/ \E k \in reset_tokens, pw \in NewPasswords, d \in Delays, tz \in BOOLEAN :
           confirm_password_reset_begin(k, pw, d, tz)
    \/ \E req \in BagToSet(inflight) : confirm_password_reset_commit(req, Untracked)
    \/ Respond

SpecReset == Init /\ [][NextReset]_vars

\* ---------------------------------------------------------------- SpecRows
\* the handlers that write Participant rows, those of routes/trips.py next
\* to the legacy ones of routes/participants.py

\* a column the body of a request leaves out
Unset == "unset"

\* what a PUT /participants/{id} body can carry for the two columns of the
\* permission system, next to name, email and role
ParticipantUpdateBodies ==
    [permission : PermissionLevel \cup {Unset},
     invitation_status : {"pending", "accepted", Unset}]

\* a ParticipantUpdate that declares permission and invitation_status
ParticipantUpdate_declared(body) == body

\* ParticipantUpdate(**body).model_dump(exclude_unset=True): the model
\* declares name, email and role; pydantic drops every other key of the body
ParticipantUpdate(body) ==
    [permission |-> Unset, invitation_status |-> Unset]

\* the checks of update_participant: the row, then the owner of its trip
update_participant_check(participant_id, current_user, parts) ==
    LET found == {p \in parts : p.id = participant_id} IN
    IF found = {} THEN 404
    ELSE LET existing_participant == CHOOSE p \in found : TRUE
             access == participants_verify_trip_access(existing_participant.trip_id,
                                                       current_user) IN
         IF access = "not_found" THEN 404
         ELSE IF access = "denied" THEN 403
         ELSE 200

\* for field, value in update_data.items(): setattr(existing_participant, ..)
update_participant_write(parts, participant_id, update_data) ==
    {IF p.id # participant_id THEN p
     ELSE [p EXCEPT !.permission =
                        IF update_data.permission = Unset THEN @
                        ELSE update_data.permission,
                    !.invitation_status =
                        IF update_data.invitation_status = Unset THEN @
                        ELSE update_data.invitation_status] : p \in parts}

\* the response's perm field holds the permission the body asked for
update_participant(current_user, participant_id, body) ==
    LET code == update_participant_check(participant_id, current_user, participants) IN
    /\ resp = NoResponse
    /\ participants' = IF code = 200
                       THEN update_participant_write(participants, participant_id,
                                                     ParticipantUpdate(body))
                       ELSE participants
    /\ resp' = Response("update_participant", code, current_user, NULL,
                        participant_id, body.permission)
    /\ UNCHANGED <<users, trips, inflight, audit_logs, recorded, vault, clock, reset_tokens>>

\* the callers: an administrator and two users, each of whom can own the
\* trip, be invited or be a stranger to it
RowUsers == {u \in UserIds : u <= 3}

NextRows ==
    \/ \E u \in RowUsers : create_trip(u, Untracked)
    \/ \E u \in RowUsers, t \in TripIds, i \in RowUsers, p \in PermissionLevel :
           share_trip(u, t, i, p, Untracked)
    \/ \E u \in RowUsers, t \in TripIds : accept_trip_invitation(u, t)
    \/ \E u \in RowUsers, t \in TripIds : decline_trip_invitation(u, t)
    \/ \E u \in RowUsers, t \in TripIds, id \in ParticipantIdArgs :
           remove_participant(u, t, id)
    \/ \E u \in RowUsers, t \in TripIds : create_participant(u, t)
    \/ \E u \in RowUsers, id \in ParticipantIdArgs, b \in ParticipantUpdateBodies :
           update_participant(u, id, b)
    \/ Respond

SpecRows == Init /\ [][NextRows]_vars

\* --------------------------------------------------------------- SpecVault
\* the vault called on its own: encrypt, then decrypt of what encrypt
\* returned, as stored or after its bytes were altered at rest
outsideVault ==
    <<users, trips, participants, inflight, resp, audit_logs, recorded, clock, reset_tokens>>

vault_encrypt(plaintext, salt, secret) ==
    LET result == encrypt(plaintext, salt, secret) IN
    /\ vault' = [VaultIdle EXCEPT !.op = "encrypt", !.plaintext = plaintext,
                                  !.salt = salt, !.secret = secret,
                                  !.raised = result.raised,
                                  !.ciphertext = result.value]
    /\ UNCHANGED outsideVault

\* the stored ciphertext is altered at rest
vault_corrupt ==
    /\ vault.op = "encrypt"
    /\ vault.raised = "none"
    /\ vault.ciphertext.kind = "token"
    /\ vault' = [vault EXCEPT !.op = "corrupt",
                              !.ciphertext = Corrupted(vault.ciphertext)]
    /\ UNCHANGED outsideVault

vault_decrypt(salt, secret) ==
    /\ vault.op \in {"encrypt", "corrupt"}
    /\ vault.raised = "none"
    /\ LET result == decrypt(vault.ciphertext, salt, secret) IN
       vault' = [vault EXCEPT !.op = IF vault.op = "encrypt" THEN "decrypt"
                                     ELSE "decrypt_corrupted",
                              !.salt2 = salt, !.secret2 = secret,
                              !.raised2 = result.raised, !.out = result.value]
    /\ UNCHANGED outsideVault

NextVault ==
    \/ \E p \in Plaintexts, s \in SaltStrings, k \in Secrets : vault_encrypt(p, s, k)
    \/ vault_corrupt
    \/ \E s \in SaltStrings, k \in Secrets : vault_decrypt(s, k)

SpecVault == Init /\ [][NextVault]_vars

\* ================================================================ claims
IsAdminOrOwner(u, t) == users[u].is_superuser \/ t.owner_id = u

\* C1: the permission resolver (check_trip_access, require_edit = false)
\* returns OWNER iff the principal is admin or owns the trip; otherwise the
\* permission of the principal's ACCEPTED Participant row; otherwise None.
\* Stated for the tables a request handler can read: a handler runs when no
\* response is being returned, and Respond changes no table, so every
\* reachable content of the tables occurs in such a state.
C1_ResolverCorrect ==
    resp = NoResponse =>
    \A t \in trips, u \in UserIds :
        LET level == check_trip_access(t, u, participants, FALSE)
            accepted == {p \in RowsOf(participants, t.id, u) :
                             p.invitation_status = "accepted"} IN
        /\ (level = "owner") <=> IsAdminOrOwner(u, t)
        /\ ~IsAdminOrOwner(u, t) =>
               IF accepted # {}
               THEN \A p \in accepted : level = p.permission
               ELSE level = "none"

\* an ordinary user holds an ACCEPTED editor row and resolves to editor
C1_Witness ==
    \E t \in trips, u \in UserIds :
        /\ ~IsAdminOrOwner(u, t)
        /\ \E p \in RowsOf(participants, t.id, u) :
               p.invitation_status = "accepted" /\ p.permission = "editor"
        /\ check_trip_access(t, u, participants, FALSE) = "editor"

\* C2: an admin with no ownership and no Participant row is granted access,
\* for read and for edit, by every trip access check of the program.
C2_AdminBypassEverywhere ==
    \A t \in trips, a \in UserIds, require_edit \in BOOLEAN :
        (/\ users[a].is_superuser
         /\ t.owner_id # a
         /\ RowsOf(participants, t.id, a) = {})
        => /\ check_trip_access(t, a, participants, require_edit) = "owner"
           /\ verify_trip_access(t, a, participants, require_edit) = "owner"
           /\ access_control_verify_trip_access(t.id, a, participants, require_edit) = "ok"
           /\ places_verify_trip_access(t.id, a) = "ok"

\* C3: verify denies exactly when the resolved level is None, or requireEdit
\* is set and the level is not OWNER or EDITOR; otherwise it allows (and
\* routes.trips.verify_trip_access returns the level).
C3_VerifyDecision ==
    \A t \in trips, u \in UserIds, require_edit \in BOOLEAN :
        LET level == check_trip_access(t, u, participants, FALSE)
            deny == level = "none"
                    \/ (require_edit /\ level \notin {"owner", "editor"}) IN
        /\ (verify_trip_access(t, u, participants, require_edit) = "denied") <=> deny
        /\ ~deny => verify_trip_access(t, u, participants, require_edit) = level
        /\ (access_control_verify_trip_access(t.id, u, participants, require_edit)
                = "denied") <=> deny
        /\ ~deny => access_control_verify_trip_access(t.id, u, participants, require_edit)
                        = "ok"

\* C4: a principal who is neither admin nor owner and has no ACCEPTED row
\* (the row is PENDING, DECLINED or absent) is denied by verify for read and
\* for edit, whatever permission the row carries. Stated, like C1, for the
\* tables a request handler can read.
C4_NotAcceptedNoAccess ==
    resp = NoResponse =>
    \A t \in trips, u \in UserIds :
        (/\ ~IsAdminOrOwner(u, t)
         /\ \A p \in RowsOf(participants, t.id, u) : p.invitation_status # "accepted")
        => /\ places_verify_trip_access(t.id, u) = "denied"
           /\ \A require_edit \in BOOLEAN :
                  /\ verify_trip_access(t, u, participants, require_edit) = "denied"
                  /\ access_control_verify_trip_access(t.id, u, participants,
                                                       require_edit) = "denied"

\* an ordinary user holds a DECLINED editor row and is denied
C4_Witness ==
    \E t \in trips, u \in UserIds :
        /\ ~IsAdminOrOwner(u, t)
        /\ \E p \in RowsOf(participants, t.id, u) :
               p.invitation_status = "declined" /\ p.permission = "editor"
        /\ verify_trip_access(t, u, participants, FALSE) = "denied"

\* C5: under every interleaving of concurrent accept and decline calls for
\* one (invitee, trip) pair, a call succeeds only on a row that is still
\* PENDING when it commits: two accepts never both succeed, and a decided
\* row is never rewritten by a call that read it while PENDING.
C5_TransitionOnlyFromPending ==
    [][(resp'.op \in {"accept", "decline"} /\ resp'.code = 200 /\ resp = NoResponse)
           => \E p \in participants :
                  p.id = resp'.target /\ p.invitation_status = "pending"]_vars

\* C6: at most one Participant row per (user, trip) pair.
C6_OneRowPerPair ==
    \A p, q \in participants :
        (p.user_id # NULL /\ p.user_id = q.user_id /\ p.trip_id = q.trip_id) => p = q

\* C7: accept on a PENDING row moves it to ACCEPTED, decline on a PENDING
\* row moves it to DECLINED; accept or decline on an ACCEPTED or DECLINED
\* row fails with a caller error (400) and leaves the table unchanged.
C7_InvitationStateMachine ==
    [][(resp'.op \in {"accept", "decline"} /\ resp = NoResponse)
          => LET target == IF resp'.op = "accept" THEN "accepted" ELSE "declined" IN
             \A p \in RowsOf(participants, resp'.trip, resp'.user) :
                 IF p.invitation_status = "pending"
                 THEN /\ resp'.code = 200
                      /\ \E q \in participants' :
                             /\ q = [p EXCEPT !.invitation_status = target,
                                              !.accepted_at = q.accepted_at]
                             /\ participants' \ {q} = participants \ {p}
                 ELSE /\ resp'.code = 400
                      /\ participants' = participants]_vars

\* a second accept after a successful one has been rejected
C7_Witness ==
    /\ resp.op = "accept"
    /\ resp.code = 400
    /\ \E p \in RowsOf(participants, resp.trip, resp.user) :
           p.invitation_status = "accepted"

\* C8: invite succeeds only if the inviter is the trip's owner or an admin,
\* the permission is EDITOR or VIEWER, the invitee is not the inviter and no
\* row exists for (invitee, trip); on success exactly one PENDING row with
\* the requested permission is added; a rejected invite is an error and
\* leaves the table unchanged.
C8_Invite ==
    [][(resp'.op = "share_trip" /\ resp = NoResponse)
          => IF resp'.code = 201
             THEN /\ \E t \in trips : t.id = resp'.trip /\ IsAdminOrOwner(resp'.user, t)
                  /\ resp'.perm \in {"editor", "viewer"}
                  /\ resp'.target # resp'.user
                  /\ RowsOf(participants, resp'.trip, resp'.target) = {}
                  /\ participants \subseteq participants'
                  /\ \E q \in participants' :
                         /\ participants' \ participants = {q}
                         /\ q.trip_id = resp'.trip
                         /\ q.user_id = resp'.target
                         /\ q.permission = resp'.perm
                         /\ q.invitation_status = "pending"
             ELSE /\ resp'.code \in {400, 403, 404}
                  /\ participants' = participants]_vars

\* an invitation has just been created
C8_Witness ==
    /\ resp.op = "share_trip"
    /\ resp.code = 201
    /\ \E p \in RowsOf(participants, resp.trip, resp.target) :
           p.invitation_status = "pending" /\ p.permission = resp.perm

\* C9: on every participant-removal entry point the trip's owner or an
\* admin may remove any row of the trip and the invitee may remove their
\* own row, whatever its status; any other actor is denied and the row stays.
C9_Revoke ==
    [][(resp'.op \in {"remove_participant", "delete_participant"} /\ resp = NoResponse)
          => \A p \in participants, t \in trips :
                 (/\ p.id = resp'.target
                  /\ t.id = p.trip_id
                  /\ resp'.op = "remove_participant" => resp'.trip = t.id)
                 => IF IsAdminOrOwner(resp'.user, t) \/ p.user_id = resp'.user
                    THEN resp'.code = 204 /\ participants' = participants \ {p}
                    ELSE resp'.code = 403 /\ participants' = participants]_vars

\* C10: access follows the current store: after an invite and before the
\* accept the invitee is denied; right after the invitee's accept of an
\* EDITOR row verify(.., requireEdit = true) succeeds with EDITOR; after
\* the revoke of the invitee's row verify is denied again.
C10_AccessFollowsStore ==
    [][(resp = NoResponse /\ resp'.code \in {200, 201, 204}) =>
          \A t \in trips, u \in UserIds :
              ~IsAdminOrOwner(u, t) =>
                  /\ (/\ resp'.op = "share_trip" /\ resp'.code = 201
                      /\ resp'.trip = t.id /\ resp'.target = u)
                     => \A e \in BOOLEAN :
                            verify_trip_access(t, u, participants', e) = "denied"
                  /\ (/\ resp'.op = "accept" /\ resp'.code = 200
                      /\ resp'.trip = t.id /\ resp'.user = u
                      /\ \E p \in RowsOf(participants, t.id, u) : p.permission = "editor")
                     => verify_trip_access(t, u, participants', TRUE) = "editor"
                  /\ (/\ resp'.op = "remove_participant" /\ resp'.code = 204
                      /\ resp'.trip = t.id
                      /\ \E p \in RowsOf(participants, t.id, u) : p.id = resp'.target)
                     => \A e \in BOOLEAN :
                            verify_trip_access(t, u, participants', e) = "denied"]_vars

\* the row of a user who had accepted as editor has just been revoked
C10_Witness ==
    /\ resp.op = "remove_participant"
    /\ resp.code = 204
    /\ \E t \in trips, u \in UserIds :
           /\ t.id = resp.trip
           /\ ~IsAdminOrOwner(u, t)
           /\ RowsOf(participants, t.id, u) = {}
           /\ verify_trip_access(t, u, participants, FALSE) = "denied"

\* C11: accepted_at is unset when a row is created and is set only by the
\* PENDING -> ACCEPTED transition: in every reachable state, concurrent
\* accept and decline calls included, a row with accepted_at set is ACCEPTED
\* and a PENDING or DECLINED row has accepted_at unset.
C11_AcceptedAtOnlyOnAccepted ==
    \A p \in participants :
        (p.accepted_at # NULL) <=> (p.invitation_status = "accepted")

\* a salt that is present and that base64 decodes
ValidSalt(salt) == salt # "" /\ urlsafe_b64decode(salt) # "error"

\* C18: round trip under one master secret: for every plaintext and every
\* valid non-empty salt, encrypt does not raise and decrypt of what it
\* returned, with the same salt, gives the plaintext back; the empty
\* plaintext encrypts to the empty ciphertext without an error, whatever the
\* salt, and decrypts back to the empty string.
C18_RoundTrip ==
    /\ (vault.op = "encrypt" /\ ValidSalt(vault.salt)) => vault.raised = "none"
    /\ (vault.op = "encrypt" /\ vault.plaintext = "")
           => vault.raised = "none" /\ vault.ciphertext = EmptyCiphertext
    /\ (vault.op = "decrypt" /\ vault.plaintext = "")
           => vault.raised2 = "none" /\ vault.out = ""
    /\ (/\ vault.op = "decrypt"
        /\ ValidSalt(vault.salt)
        /\ vault.salt2 = vault.salt
        /\ vault.secret2 = vault.secret)
           => vault.raised2 = "none" /\ vault.out = vault.plaintext

\* a non-empty key has been encrypted and decrypted back with its salt
C18_Witness ==
    /\ vault.op = "decrypt"
    /\ vault.plaintext = "key-1"
    /\ vault.salt = "Qg=="
    /\ vault.salt2 = "Qg=="
    /\ vault.secret2 = vault.secret
    /\ vault.ciphertext.kind = "token"
    /\ vault.out = "key-1"

C20_MissingSaltRaises ==
    /\ (vault.op = "encrypt" /\ vault.plaintext # "" /\ vault.salt = "")
           => vault.raised # "none"
    /\ (/\ vault.op \in {"decrypt", "decrypt_corrupted"}
        /\ vault.ciphertext.kind # "empty"
        /\ vault.salt2 = "")
           => vault.raised2 # "none"

\* C12: a verifier call has no side effects and does not depend on the audit
\* store. Whatever the audit store would meet, a step of verify_trip_access
\* or of access_control.verify_trip_access leaves the trips, participants
\* and audit_logs tables as they were, and answers with the status that the
\* tables and its arguments alone determine (403 when it denies).
C12_VerifyNoSideEffects ==
    [][(resp = NoResponse /\ resp'.op \in {"verify_trip_access",
                                          "access_control.verify_trip_access"})
       => /\ trips' = trips
          /\ participants' = participants
          /\ audit_logs' = audit_logs
          /\ \E e \in BOOLEAN :
               /\ resp'.perm = RequiredLevel(e)
               /\ resp'.code = verify_status(
                    IF resp'.op = "verify_trip_access"
                    THEN verify_trip_access(CHOOSE t \in TripById(resp'.trip) : TRUE,
                                            resp'.user, participants, e)
                    ELSE access_control_verify_trip_access(resp'.trip, resp'.user,
                                                           participants, e))]_vars

\* a denial answered while the audit table holds an entry, and an allowance
\* granted through an accepted participant row
C12_Witness ==
    /\ resp.op = "verify_trip_access"
    /\ resp.code = 403
    /\ audit_logs # <<>>
    /\ \E p \in participants : p.invitation_status = "accepted"

\* C13: the recorder never raises to its caller. Every call of log_event
\* returns the persisted entry when the write succeeds and None when
\* building, adding, committing or refreshing the entry fails, also when
\* the store is down and the recovery rollback fails as well.
C13_RecordNeverRaises ==
    \A i \in 1..Len(recorded) :
        recorded[i].returned = IF recorded[i].fault = "none" THEN "entry" ELSE "None"

\* C14: a recording failure never aborts or undoes the operation that
\* triggered it. Whenever create_trip, update_trip or share_trip has made
\* its recorder call, whatever the call met, the mutation is in the store
\* and the handler answers as it does when the audit write succeeds (201
\* for create_trip and share_trip, 200 for update_trip).
C14_AuditFailureDoesNotAbort ==
    (resp.op \in {"create_trip", "update_trip", "share_trip"} /\ recorded # <<>>)
        => /\ TripById(resp.trip) # {}
           /\ resp.op = "share_trip"
                 => \E p \in participants : /\ p.trip_id = resp.trip
                                            /\ p.user_id = resp.target
           /\ resp.code = IF resp.op = "update_trip" THEN 200 ELSE 201

\* C15 as stated: the audit log is append-only. A successful record adds
\* exactly one entry, and no step changes or removes an entry that exists,
\* the deletion of the principal it refers to included.
C15_AppendOnlyUnchanged ==
    [][/\ Len(audit_logs') \in {Len(audit_logs), Len(audit_logs) + 1}
       /\ \A i \in 1..Len(audit_logs) : audit_logs'[i] = audit_logs[i]
       /\ (recorded = <<>> /\ recorded' # <<>> /\ recorded'[1].returned = "entry")
             => Len(audit_logs') = Len(audit_logs) + 1]_vars

\* C15, amended: the audit log is append-only. A successful record adds
\* exactly one entry; no step removes an entry that exists or changes any
\* of its fields other than user_id, and user_id changes only to null, when
\* the principal it names is deleted. After the deletion the entry still
\* carries the principal's username.
C15_AppendOnly ==
    [][/\ Len(audit_logs') \in {Len(audit_logs), Len(audit_logs) + 1}
       /\ \A i \in 1..Len(audit_logs) :
            /\ [audit_logs'[i] EXCEPT !.user_id = NULL]
                 = [audit_logs[i] EXCEPT !.user_id = NULL]
            /\ audit_logs'[i].user_id # audit_logs[i].user_id
                 => /\ audit_logs'[i].user_id = NULL
                    /\ audit_logs[i].user_id \in DOMAIN users
                    /\ audit_logs[i].user_id \notin DOMAIN users'
       /\ (recorded = <<>> /\ recorded' # <<>> /\ recorded'[1].returned = "entry")
             => Len(audit_logs') = Len(audit_logs) + 1]_vars

\* the entry of a successful login outlives the account: the user is
\* deleted, the entry has lost its user_id and kept the username
C15_Witness ==
    /\ resp.op = "delete_account"
    /\ resp.code = 204
    /\ \E i \in 1..Len(audit_logs) :
         /\ audit_logs[i].event_type = "auth.login"
         /\ audit_logs[i].user_id = NULL
         /\ audit_logs[i].username = resp.user
         /\ resp.user \notin DOMAIN users

\* C16: every login attempt that the handler answers (success, wrong
\* credentials, unknown user, inactive user) makes exactly one recorder
\* call, with status "success" when the attempt is accepted and "failure"
\* when it is rejected.
C16_LoginAudited ==
    (resp.op = "login" /\ resp.code # 429)
        => /\ Len(recorded) = 1
           /\ recorded[1].status =
                IF login_check(resp.user, resp.target = 1) = 200
                THEN "success" ELSE "failure"

\* the attempt of a deactivated user with the right password, recorded as a
\* failure
C16_Witness ==
    /\ resp.op = "login"
    /\ resp.code = 400
    /\ resp.target = 1
    /\ Len(recorded) = 1
    /\ recorded[1].status = "failure"

\* C17: every attempted mutation of a trip or of its sharing state makes a
\* recorder call, whether it succeeds or is rejected. Whenever create_trip,
\* update_trip, share_trip or accept_trip_invitation has answered with
\* success (200, 201), with access denied (403) or with an invalid
\* transition or request (400), the request has called the recorder.
C17_MutationsAudited ==
    (/\ resp.op \in {"create_trip", "update_trip", "share_trip", "accept"}
     /\ resp.code \in {200, 201, 400, 403})
        => recorded # <<>>

\* C21: in every state reached by update_ai_settings and delete_ai_settings
\* calls, a user's encrypted_api_key is set only if the user's
\* encryption_salt is set.
C21_KeyOnlyWithSalt ==
    \A u \in DOMAIN users :
        users[u].encrypted_api_key # NoKey => users[u].encryption_salt # NoSalt

\* a user whose key was deleted and whose salt stayed, next to one with both
C21_Witness ==
    /\ resp.op = "delete_ai_settings"
    /\ users[resp.user].encrypted_api_key = NoKey
    /\ users[resp.user].encryption_salt # NoSalt
    /\ \E u \in DOMAIN users : users[u].encrypted_api_key # NoKey

C23_OwnerImmutable ==
    [][\A t \in trips : \A n \in trips' : n.id = t.id => n.owner_id = t.owner_id]_vars

\* an update that succeeded with another user's id as owner_id in its body
C23_Witness ==
    /\ resp.op = "update_trip"
    /\ resp.code = 200
    /\ resp.target # NULL
    /\ \E t \in TripById(resp.trip) : t.owner_id # resp.target

\* C25: a user who is neither admin nor owner of a trip can never update or
\* delete it, whatever participant row they hold: the request is answered
\* 403; a caller without a token is answered 401; and a rejected request
\* leaves the trips as they were.
C25_NonOwnerCannotWrite ==
    [][(resp = NoResponse /\ resp'.op \in {"update_trip", "delete_trip"})
       => /\ resp'.user = NULL => resp'.code = 401
          /\ (/\ resp'.user \in DOMAIN users
              /\ users[resp'.user].is_active
              /\ ~users[resp'.user].is_superuser
              /\ \E t \in TripById(resp'.trip) : t.owner_id # resp'.user)
                => resp'.code = 403
          /\ resp'.code \in {401, 403} => trips' = trips]_vars

\* a delete refused to an accepted editor of the trip
C25_Witness ==
    /\ resp.op = "delete_trip"
    /\ resp.code = 403
    /\ \E p \in participants : /\ p.trip_id = resp.trip
                               /\ p.user_id = resp.user
                               /\ p.invitation_status = "accepted"
                               /\ p.permission = "editor"

\* C24: every handler that reads trip data decides as verify does for a
\* read. For an active user and an existing trip, get_trip,
\* get_trip_summary, get_places and get_diary_entries answer 200 exactly
\* when verify_trip_access with require_edit = FALSE allows the user (owner,
\* administrator, accepted viewer or editor).
C24_ReadsFollowVerify ==
    (/\ resp.op \in {"get_trip", "get_trip_summary", "get_places", "get_diary_entries"}
     /\ resp.user \in DOMAIN users
     /\ users[resp.user].is_active
     /\ TripById(resp.trip) # {})
        => (resp.code = 200
              <=> verify_trip_access(CHOOSE t \in TripById(resp.trip) : TRUE,
                                     resp.user, participants, FALSE)
                     \in {"owner", "editor", "viewer"})

\* C26: for an authenticated user who is not an administrator, the trip
\* list holds exactly the trips the user owns and the trips on which the
\* user holds an accepted participant row, each of which verify allows the
\* user to read; a trip of someone else with no row, a pending row or a
\* declined row for the user is not in the list.
C26_ListOnlyReadable ==
    (/\ resp.op = "get_trips"
     /\ resp.user \in DOMAIN users
     /\ ~users[resp.user].is_superuser)
        => /\ resp.code = 200
           /\ \A t \in trips :
                /\ t.id \in resp.trip
                     <=> \/ t.owner_id = resp.user
                         \/ \E p \in participants :
                              /\ p.trip_id = t.id
                              /\ p.user_id = resp.user
                              /\ p.invitation_status = "accepted"
                /\ t.id \in resp.trip
                     => verify_trip_access(t, resp.user, participants, FALSE)
                            \in {"owner", "editor", "viewer"}

\* a list given to a user that leaves out a trip the user declined
C26_Witness ==
    /\ resp.op = "get_trips"
    /\ resp.user \in DOMAIN users
    /\ ~users[resp.user].is_superuser
    /\ \E p \in participants : /\ p.user_id = resp.user
                               /\ p.invitation_status = "declined"
                               /\ p.trip_id \notin resp.trip

\* C30: a deactivated user can perform no trip operation with a token that
\* is still valid. Reading a trip or its summary, listing trips, creating a
\* trip and updating a trip are all rejected for a user whose is_active is
\* FALSE.
C30_InactiveRejected ==
    (/\ resp.op \in {"get_trip", "get_trip_summary", "get_trips", "get_places",
                     "get_diary_entries", "create_trip", "update_trip"}
     /\ resp.user \in DOMAIN users
     /\ ~users[resp.user].is_active)
        => resp.code \notin {200, 201}

\* C27: a password-reset token completes a reset at most once. A confirm
\* that is answered after a reset of the same user was committed, with a
\* token made before that reset (the token that reset used, or another one),
\* is rejected and leaves the password as it is; this holds also when the
\* confirms overlap.
C27_TokenUsedAtMostOnce ==
    [][\A k \in reset_tokens :
          (/\ resp.op = "none"
           /\ resp'.op = "confirm_password_reset"
           /\ resp'.target = k.token.nonce
           /\ k.token.type = "password_reset"
           /\ users[k.token.user_id].password_changed_at # NULL
           /\ k.made_at < users[k.token.user_id].password_changed_at)
             => /\ resp'.code # 200
                /\ users'[k.token.user_id].hashed_password
                       = users[k.token.user_id].hashed_password]_vars

\* C28: under invite, accept, decline, revoke and the legacy create and
\* update of participants, no Participant row ever has the permission
\* "owner", and no step changes the permission of a row that exists.
C28_PermissionFixed ==
    [][/\ \A q \in participants' : q.permission # "owner"
       /\ \A p \in participants, q \in participants' :
             q.id = p.id => q.permission = p.permission]_vars

\* the owner's update of an accepted editor row was answered 200 with a body
\* that asked for "owner", and the row is an editor row still
C28_Witness ==
    /\ resp.op = "update_participant"
    /\ resp.code = 200
    /\ resp.perm = "owner"
    /\ \E p \in participants : /\ p.id = resp.target
                               /\ p.permission = "editor"
                               /\ p.invitation_status = "accepted"

\* C29: DECLINED and ACCEPTED are terminal for a row. No step moves a row
\* that exists from accepted or declined back to pending, or from declined
\* to accepted; and no step adds a row for a (trip, user) pair while a
\* declined row of that pair exists, so the pair is pending again only
\* through a fresh row made after the declined one was removed.
C29_TerminalStatuses ==
    [][/\ \A p \in participants, q \in participants' :
             q.id = p.id
               => /\ p.invitation_status \in {"accepted", "declined"}
                       => q.invitation_status # "pending"
                  /\ p.invitation_status = "declined"
                       => q.invitation_status # "accepted"
       /\ \A q \in participants' :
             (/\ q.user_id # NULL
              /\ \A p \in participants : p.id # q.id)
               => \A p \in participants :
                     (p.trip_id = q.trip_id /\ p.user_id = q.user_id)
                       => p.invitation_status # "declined"]_vars

====
